---- MODULE Spec2Model ----
(***************************************************************************)
(* ZootovaryParser (src/parser.py): one sequential crawl.  start_parser    *)
(* runs _start_parser up to restart_count times; _start_parser walks the   *)
(* categories with get_items; get_items fetches listing pages with         *)
(* _get_source and hands every item block to get_item_data, which offers   *)
(* each extracted record to self.results through _need_to_append_results.  *)
(* The site, the start page file and the HTML of every page are the        *)
(* environment: what a request returns and what a page holds is chosen     *)
(* when the code reads it.                                                 *)
(***************************************************************************)
EXTENDS Naturals, Integers, Sequences, FiniteSets, TLC

\* ---------------------------------------------------------------- bounds
MaxRetriesCfg == 2      \* config['max_retries'] ranges over 1..MaxRetriesCfg
MaxRestartCfg == 2      \* restart['restart_count'] ranges over 1..MaxRestartCfg
MaxCats == 3            \* length of the list parse_cats returns
MaxPage == 2            \* largest last-page number a navigation block shows
MaxItems == 1           \* item blocks on one listing page
MaxOffers == 1          \* offer rows on one item page
MaxResults == 2         \* cap on len(self.results) in the crawl
MaxStore == 3           \* cap on len(self.results) when only offers are made

\* ---------------------------------------------------------- Python values
NoneVal == "<None>"

\* lines 167-172: what a requests.get call gave when it gave no status code:
\* none was made yet, or it raised a RequestException
NoResponse == 0
TransportError == -1

\* bool(v) of a str-or-None value: None and '' are falsy
Truthy(v) == v # NoneVal /\ v # ""

\* sku_article is columns[0].getText(...).split(':')[-1]: always a str;
\* a dict handed to _need_to_append_results may lack the key (get -> None)
ArticleVals == {NoneVal, "", "A1", "A2"}
BarcodeVals == {NoneVal, "", "B1", "B2"}
Records == [sku_article : ArticleVals, sku_barcode : BarcodeVals]

Rec(a, b) == [sku_article |-> a, sku_barcode |-> b]

\* the records the item pages of the crawled site yield: two products, each
\* with an article and a barcode (lines 404-412); records without an identity
\* are offered to the store in SpecStore
SiteRecords == {Rec("A1", "B1"), Rec("A2", "B2")}

NoOffer == [rec |-> Rec(NoneVal, NoneVal), ret |-> FALSE, made |-> FALSE]

\* ---------------------------------------------------------- configuration
CategoryLists == {<<>>, <<"12", "34">>}
Configs == [max_retries : 1..MaxRetriesCfg,
            restart_count : 1..MaxRestartCfg,
            categories : CategoryLists]

\* ------------------------------------------------------ category discovery
\* ids of the categories of the start page, by position in the menu
CatIds == <<"c1", "c2", "c3", "c4", "c5", "c6">>

\* the lev1 entry that owns position i of a menu laid out as `kinds`
RECURSIVE MainCatOf(_, _)
MainCatOf(kinds, i) == IF kinds[i] = "main" THEN i ELSE MainCatOf(kinds, i - 1)

\* lines 250-275: parse_cats appends a dict with parent_id None for each lev1
\* entry and then one with parent_id = main_cat_id for each of its links
CatsData(kinds) ==
    [i \in 1..Len(kinds) |->
        [id |-> CatIds[i],
         parent_id |-> IF kinds[i] = "main" THEN NoneVal ELSE CatIds[MainCatOf(kinds, i)]]]

\* the menus the start page can show: lev1 entries, each followed by its links
DiscoveryTrees ==
    {<<>>} \cup
    UNION {{CatsData(k) : k \in {m \in [1..n -> {"main", "sub"}] : m[1] = "main"}}
             : n \in 1..MaxCats}

\* return value of parse_cats: None, or the list
ParseCatsNoSourceEmptyList == [none |-> FALSE, list |-> <<>>]
ParseCatsNoSource == [none |-> TRUE, list |-> <<>>]
ParseCatsList(tree) == [none |-> FALSE, list |-> tree]

\* `if category.get('parent_id')`
IsWalkedCategory(category) == Truthy(category.parent_id)

\* ------------------------------------------------------------- navigation
NavAbsent == [kind |-> "absent", n |-> 0]
NavNoAnchor == [kind |-> "noanchor", n |-> 0]
NavUnparseable == [kind |-> "unparseable", n |-> 0]
NavInt(n) == [kind |-> "int", n |-> n]
NavUnread == [kind |-> "unread", n |-> 0]
NavVals == {NavAbsent, NavNoAnchor, NavUnparseable} \cup {NavInt(n) : n \in 1..MaxPage}

NoParam == 0
PageRequest(k) == [page |-> k, param |-> IF k = 1 THEN NoParam ELSE k]

\* --------------------------------------------------------- deduplication
\* the condition of the loop body of _need_to_append_results
SameIdentityWrongKey(result, new_result) ==
    /\ result.sku_article = new_result.sku_article
    /\ Truthy(new_result.sku_article)
    /\ result.sku_barcode = new_result.sku_article
    /\ Truthy(new_result.sku_barcode)

SameIdentityNoTruthiness(result, new_result) ==
    /\ result.sku_article = new_result.sku_article
    /\ result.sku_barcode = new_result.sku_barcode

SameIdentityBarcodeUnchecked(result, new_result) ==
    /\ result.sku_article = new_result.sku_article
    /\ Truthy(new_result.sku_article)
    /\ result.sku_barcode = new_result.sku_barcode

SameIdentity(result, new_result) ==
    /\ result.sku_article = new_result.sku_article
    /\ Truthy(new_result.sku_article)
    /\ result.sku_barcode = new_result.sku_barcode
    /\ Truthy(new_result.sku_barcode)

RECURSIVE ScanResults(_, _, _)
ScanResults(rs, new_result, i) ==
    IF i > Len(rs) THEN TRUE
    ELSE IF SameIdentity(rs[i], new_result) THEN FALSE
    ELSE ScanResults(rs, new_result, i + 1)

\* _need_to_append_results whose loop passes over self.results[0]
NeedToAppendResultsFromSecond(rs, new_result) == ScanResults(rs, new_result, 2)

\* _need_to_append_results(new_result) over self.results = rs
NeedToAppendResults(rs, new_result) == ScanResults(rs, new_result, 1)

\* `if self._need_to_append_results(res): self.results.append(res)`
OfferAppendAlways(rs, res) == Append(rs, res)

\* lines 481-482 with insert(0, res) in place of append(res)
OfferInsertFirst(rs, res) == IF NeedToAppendResults(rs, res) THEN <<res>> \o rs ELSE rs

OfferResult(rs, res) == IF NeedToAppendResults(rs, res) THEN Append(rs, res) ELSE rs

\* ----------------------------------------------------------------- fetch
\* `while max_retries > 0`
RetryGuardOffByOne(m) == m >= 0
RetryGuard(m) == m > 0

\* ------------------------------------------------------------ supervisor
\* `if try_count == restart_count`
IsLastTryNever(t, n) == t > n
IsLastTry(t, n) == t = n

VARIABLES
    config,      \* self.config after _prepare_to_work
    results,     \* self.results
    lastOffer,   \* what the latest offer row handed to the store and what the check returned
    sink,        \* the write_csv calls of the current attempt, in call order
    try_count,   \* loop variable of start_parser
    runLog,      \* "attempt" / "sleep" events of start_parser, in order
    outcome,     \* "running", "succeeded", "exhausted"
    pc,          \* position of the single thread of control
    err,         \* the exception that ended the attempt, or NoneVal
    disc,        \* what parse_cats did in this attempt
    categories,  \* local `categories` of _start_parser
    catIdx,      \* position of `for category in categories`
    walked,      \* indices of the categories handed to get_items in this attempt
    walkState,   \* "none", "running", "returned", "aborted" for the latest get_items call
    nav,         \* navigation block of page 1 of the current category
    pageNo,      \* listing page being processed
    pagesReq,    \* listing pages get_items asked _get_source for, in order
    itemIdx,     \* item blocks of the current page taken so far
    offerIdx,    \* offer rows of the current item page taken so far
    fetchFor,    \* caller of the running _get_source: "page1", "page", "item"
    retries,     \* local max_retries of _get_source
    requests,    \* requests.get calls of the current _get_source call
    fails,       \* how many of them failed
    source,      \* return value of the latest _get_source call
    response,    \* what the latest requests.get of the current _get_source call gave
    onScript,    \* the run so far is the run of the end-to-end scenario
    unpaced,     \* get_item_data calls of this attempt not yet followed by _make_delay
    url          \* the address the latest get_items call was given

supVars == <<config, try_count, runLog, outcome, sink>>
storeVars == <<results, lastOffer>>
travVars == <<disc, categories, catIdx, walked>>
walkVars == <<walkState, nav, pageNo, pagesReq, itemIdx, offerIdx>>
fetchVars == <<fetchFor, retries, requests, fails, source, response>>
vars == <<supVars, storeVars, pc, err, travVars, walkVars, fetchVars, onScript, unpaced, url>>

\* ------------------------------------------------- the end-to-end scenario
\* config {categories: [12, 34], max_retries: 1}; the site shows one page
\* without navigation for category 12 and two pages for category 34, every
\* page lists one item with one offer row: (A1, B1) on each first page,
\* (A2, B2) on page 2 of category 34; every request is answered with 200
IsScenarioConfig(cfg) == cfg.categories = <<"12", "34">> /\ cfg.max_retries = 1
ScenarioNav(c) == IF c = 1 THEN NavAbsent ELSE NavInt(2)
ScenarioRecord(c, p) == IF c = 2 /\ p = 2 THEN Rec("A2", "B2") ELSE Rec("A1", "B1")

\* onScript stays true while each step is the scenario's step
Follow(step) == onScript' = (onScript /\ step)

\* line 295: _make_delay() is called after get_item_data returned
MakeDelay == unpaced' = unpaced - 1

\* line 209: category.get('link') of a discovered category; line 216: the
\* f'{domain}/catalog/{category}/' of a configured id
NoUrl == [kind |-> "none", id |-> NoneVal]
WalkUrl(category, discovered) ==
    IF discovered THEN [kind |-> "link", id |-> category.id]
    ELSE [kind |-> "template", id |-> category]

\* an except branch that starts the next attempt with an empty list
CarriedResultsCleared(rs) == <<>>

\* lines 35, 498-504: self.results is bound in __init__ only; the except
\* branch and the sleep leave the list the failed attempt had filled
CarriedResults(rs) == rs

\* no _get_source call is running and no return value is held
FreshFetch ==
    /\ fetchFor' = "none"
    /\ retries' = 0
    /\ requests' = 0
    /\ fails' = 0
    /\ source' = NoneVal
    /\ response' = NoResponse

\* a next attempt that keeps the category list and the place reached in it
FreshLocalsKeepPlace ==
    /\ UNCHANGED <<disc, categories, catIdx, walked>>
    /\ walkState' = "none"
    /\ nav' = NavUnread
    /\ pageNo' = 0
    /\ pagesReq' = <<>>
    /\ itemIdx' = 0
    /\ offerIdx' = 0
    /\ FreshFetch

\* the locals of one attempt before _start_parser runs
FreshLocals ==
    /\ disc' = "none"
    /\ categories' = <<>>
    /\ catIdx' = 0
    /\ walked' = <<>>
    /\ walkState' = "none"
    /\ nav' = NavUnread
    /\ pageNo' = 0
    /\ pagesReq' = <<>>
    /\ itemIdx' = 0
    /\ offerIdx' = 0
    /\ FreshFetch

Init ==
    /\ config \in Configs
    /\ results = <<>>
    /\ lastOffer = NoOffer
    /\ sink = <<>>
    /\ try_count = 0
    /\ runLog = <<>>
    /\ outcome = "running"
    /\ pc = "idle"
    /\ err = NoneVal
    /\ disc = "none"
    /\ categories = <<>>
    /\ catIdx = 0
    /\ walked = <<>>
    /\ walkState = "none"
    /\ nav = NavUnread
    /\ pageNo = 0
    /\ pagesReq = <<>>
    /\ itemIdx = 0
    /\ offerIdx = 0
    /\ fetchFor = "none"
    /\ retries = 0
    /\ requests = 0
    /\ fails = 0
    /\ source = NoneVal
    /\ response = NoResponse
    /\ onScript = IsScenarioConfig(config)
    /\ unpaced = 0
    /\ url = NoUrl

\* ------------------------------------------------------------ start_parser
\* lines 488-494: defaults, then the first iteration of the for loop
StartParser ==
    /\ pc = "idle"
    /\ try_count' = 1
    /\ runLog' = <<"attempt">>
    /\ pc' = "attempt"
    /\ UNCHANGED <<config, outcome, sink, storeVars, err, travVars, walkVars, fetchVars>>
    /\ Follow(TRUE)
    /\ UNCHANGED unpaced
    /\ UNCHANGED url

\* lines 498-502: the exception of the last try ends the loop
Exhausted ==
    /\ pc = "raised"
    /\ IsLastTry(try_count, config.restart_count)
    /\ pc' = "done"
    /\ outcome' = "exhausted"
    /\ UNCHANGED <<config, try_count, runLog, sink, storeVars, err, travVars, walkVars, fetchVars>>
    /\ Follow(FALSE)
    /\ UNCHANGED unpaced
    /\ UNCHANGED url

\* lines 498-504: the exception of an earlier try leads to time.sleep;
\* the frame of the failed _start_parser call is gone
Cooldown ==
    /\ pc = "raised"
    /\ ~IsLastTry(try_count, config.restart_count)
    /\ runLog' = Append(runLog, "sleep")
    /\ pc' = "sleeping"
    /\ FreshLocals
    /\ results' = CarriedResults(results)
    /\ sink' = <<>>
    /\ UNCHANGED <<config, try_count, outcome, lastOffer, err>>
    /\ Follow(FALSE)
    /\ unpaced' = 0
    /\ url' = NoUrl

\* line 494: the sleep returns and the for loop takes its next value, if any
Resume ==
    /\ pc = "sleeping"
    /\ IF try_count < config.restart_count
       THEN /\ try_count' = try_count + 1
            /\ runLog' = Append(runLog, "attempt")
            /\ pc' = "attempt"
            /\ outcome' = outcome
       ELSE /\ pc' = "done"
            /\ outcome' = "exhausted"
            /\ UNCHANGED <<try_count, runLog>>
    /\ err' = NoneVal
    /\ UNCHANGED <<config, sink, storeVars, travVars, walkVars, fetchVars>>
    /\ Follow(FALSE)
    /\ UNCHANGED unpaced
    /\ UNCHANGED url

\* ----------------------------------------------------------- _start_parser
\* lines 198-200, 213: a non-empty configured list is walked as it is
ExplicitMode ==
    /\ pc = "attempt"
    /\ config.categories # <<>>
    /\ categories' = config.categories
    /\ catIdx' = 1
    /\ pc' = "cats"
    /\ UNCHANGED <<supVars, storeVars, err, disc, walked, walkVars, fetchVars>>
    /\ Follow(TRUE)
    /\ UNCHANGED unpaced
    /\ UNCHANGED url

\* lines 200-203 with parse_cats 243-278: the start page is read and parsed.
\* parse_cats passes path='start_page.html', so _get_source reads that file
\* (lines 159-162) and makes no request
DiscoverOk ==
    /\ pc = "attempt"
    /\ config.categories = <<>>
    /\ \E tree \in DiscoveryTrees :
         LET ret == ParseCatsList(tree) IN
         /\ disc' = "ok"
         /\ categories' = ret.list
    /\ catIdx' = 1
    /\ pc' = "cats"
    /\ UNCHANGED <<supVars, storeVars, err, walked, walkVars, fetchVars>>
    /\ Follow(FALSE)
    /\ UNCHANGED unpaced
    /\ UNCHANGED url

\* lines 244-247 then 203: the start page is empty, parse_cats returns None
\* and `for category in categories` raises TypeError
DiscoverNoSource ==
    /\ pc = "attempt"
    /\ config.categories = <<>>
    /\ disc' = "nosource"
    /\ LET ret == ParseCatsNoSource IN
       IF ret.none
       THEN /\ pc' = "raised"
            /\ err' = "TypeError"
            /\ UNCHANGED <<categories, catIdx>>
       ELSE /\ categories' = ret.list
            /\ catIdx' = 1
            /\ pc' = "cats"
            /\ err' = err
    /\ UNCHANGED <<supVars, storeVars, walked, walkVars, fetchVars>>
    /\ Follow(FALSE)
    /\ UNCHANGED unpaced
    /\ UNCHANGED url

\* lines 160, 249-267: the start page file is missing (open raises) or lacks
\* an element parse_cats dereferences (AttributeError)
DiscoverError ==
    /\ pc = "attempt"
    /\ config.categories = <<>>
    /\ disc' = "error"
    /\ \E e \in {"FileNotFoundError", "AttributeError"} : err' = e
    /\ pc' = "raised"
    /\ UNCHANGED <<supVars, storeVars, categories, catIdx, walked, walkVars, fetchVars>>
    /\ Follow(FALSE)
    /\ UNCHANGED unpaced
    /\ UNCHANGED url

\* _get_source is entered: line 163
CallFetch(who) ==
    /\ fetchFor' = who
    /\ retries' = config.max_retries
    /\ requests' = 0
    /\ fails' = 0
    /\ source' = NoneVal
    /\ response' = NoResponse
    /\ pc' = "fetch"

\* lines 203 and 214 with a loop that ends one category early
LoopDoneEarly(i, cats) == i >= Len(cats)

\* lines 203 and 214: the for loop over the categories has run out
LoopDone(i, cats) == i > Len(cats)

\* line 220, 131: one invocation of write_csv, the rows it was handed and
\* whether it returned (ok) or raised
SinkCall(data, ok) == [data |-> data, ok |-> ok]

\* start_parser without the break of line 497
NoBreakAfterSuccess == FALSE

\* line 497: break after _start_parser returned
BreakAfterSuccess == TRUE

InDiscovery == disc = "ok"

\* lines 203-208: a discovered category without a parent_id is passed over
SkipCategory ==
    /\ pc = "cats"
    /\ ~LoopDone(catIdx, categories)
    /\ InDiscovery
    /\ ~IsWalkedCategory(categories[catIdx])
    /\ catIdx' = catIdx + 1
    /\ UNCHANGED <<supVars, storeVars, pc, err, disc, categories, walked, walkVars, fetchVars>>
    /\ Follow(FALSE)
    /\ UNCHANGED unpaced
    /\ UNCHANGED url

\* lines 209-211 and 216-218, then 304: get_items asks for page 1
StartWalk ==
    /\ pc = "cats"
    /\ ~LoopDone(catIdx, categories)
    /\ InDiscovery => IsWalkedCategory(categories[catIdx])
    /\ walked' = Append(walked, catIdx)
    /\ walkState' = "running"
    /\ nav' = NavUnread
    /\ pageNo' = 1
    /\ pagesReq' = <<PageRequest(1)>>
    /\ itemIdx' = 0
    /\ offerIdx' = 0
    /\ CallFetch("page1")
    /\ UNCHANGED <<supVars, storeVars, err, disc, categories, catIdx>>
    /\ Follow(TRUE)
    /\ UNCHANGED unpaced
    /\ url' = WalkUrl(categories[catIdx], InDiscovery)

\* line 220 and 497: the loop is over, write_csv gets self.results and
\* returns; the break at 497 ends the run (without it the for loop of 495
\* would go on to the next try_count)
FinishTraversal ==
    /\ pc = "cats"
    /\ LoopDone(catIdx, categories)
    /\ sink' = Append(sink, SinkCall(results, TRUE))
    /\ IF BreakAfterSuccess \/ IsLastTry(try_count, config.restart_count)
       THEN /\ outcome' = "succeeded"
            /\ pc' = "done"
            /\ UNCHANGED <<try_count, runLog, err, travVars, walkVars, fetchVars>>
       ELSE /\ try_count' = try_count + 1
            /\ runLog' = Append(runLog, "attempt")
            /\ pc' = "attempt"
            /\ FreshLocals
            /\ UNCHANGED <<outcome, err>>
    /\ UNCHANGED <<config, storeVars>>
    /\ Follow(TRUE)
    /\ UNCHANGED unpaced
    /\ UNCHANGED url

\* lines 131-147 called from 220: write_csv is handed self.results and raises
\* (open() or the writer fails, OSError); the exception leaves _start_parser
WriteCsvFails ==
    /\ pc = "cats"
    /\ LoopDone(catIdx, categories)
    /\ sink' = Append(sink, SinkCall(results, FALSE))
    /\ pc' = "raised"
    /\ err' = "OSError"
    /\ UNCHANGED <<config, try_count, runLog, outcome, storeVars, travVars, walkVars, fetchVars>>
    /\ Follow(FALSE)
    /\ UNCHANGED unpaced
    /\ UNCHANGED url

\* -------------------------------------------------------------- _get_source
Returned(who) ==
    CASE who = "page1" -> "page1_fetched"
      [] who = "page" -> "page_fetched"
      [] OTHER -> "item_fetched"

\* `response.ok` alone
AcceptedAnyOk(status) == status < 400

\* `response.ok and response.status_code == 200`
Statuses == {200, 204, 404}
ResponseOk(status) == status < 400
Accepted(status) == ResponseOk(status) /\ status = 200

\* lines 165-170: the response is accepted, response.text is returned
FetchAccepted ==
    /\ pc = "fetch"
    /\ RetryGuard(retries)
    /\ \E status \in Statuses, text \in {"html", ""} :
         /\ Accepted(status)
         /\ response' = status
         /\ source' = text
    /\ requests' = requests + 1
    /\ pc' = Returned(fetchFor)
    /\ UNCHANGED <<supVars, storeVars, err, travVars, walkVars, fetchFor, retries, fails>>
    /\ Follow(source' = "html")
    /\ UNCHANGED unpaced
    /\ UNCHANGED url

\* lines 165-171: another status costs one retry
FetchRejected ==
    /\ pc = "fetch"
    /\ RetryGuard(retries)
    /\ \E status \in Statuses :
         /\ ~Accepted(status)
         /\ response' = status
    /\ requests' = requests + 1
    /\ fails' = fails + 1
    /\ retries' = retries - 1
    /\ UNCHANGED <<supVars, storeVars, pc, err, travVars, walkVars, fetchFor, source>>
    /\ Follow(FALSE)
    /\ UNCHANGED unpaced
    /\ UNCHANGED url

\* lines 172-174: a RequestException costs one retry
FetchException ==
    /\ pc = "fetch"
    /\ RetryGuard(retries)
    /\ requests' = requests + 1
    /\ fails' = fails + 1
    /\ retries' = retries - 1
    /\ response' = TransportError
    /\ UNCHANGED <<supVars, storeVars, pc, err, travVars, walkVars, fetchFor, source>>
    /\ Follow(FALSE)
    /\ UNCHANGED unpaced
    /\ UNCHANGED url

\* line 165: the loop ends and the function falls off its end (None)
FetchExhausted ==
    /\ pc = "fetch"
    /\ ~RetryGuard(retries)
    /\ source' = NoneVal
    /\ pc' = Returned(fetchFor)
    /\ UNCHANGED <<supVars, storeVars, err, travVars, walkVars, fetchFor, retries, requests, fails,
                   response>>
    /\ Follow(FALSE)
    /\ UNCHANGED unpaced
    /\ UNCHANGED url

\* ---------------------------------------------------------------- get_items
\* `if not source` written as a test for the empty string
HasSourceUnlessEmpty(src) == src # ""

\* lines 305, 328, 343: `if not source` is false
HasSource(src) == Truthy(src)

\* get_items returns and the category loop takes the same category again
ReturnFromWalkSameCategory ==
    /\ walkState' = "returned"
    /\ catIdx' = catIdx
    /\ itemIdx' = 0
    /\ pc' = "cats"

\* get_items returns to the category loop of _start_parser
ReturnFromWalk ==
    /\ walkState' = "returned"
    /\ catIdx' = catIdx + 1
    /\ itemIdx' = 0
    /\ pc' = "cats"

\* an exception leaves get_items and _start_parser
RaiseInWalk(e) ==
    /\ walkState' = "aborted"
    /\ err' = e
    /\ pc' = "raised"

\* lines 305-307: no source for page 1
Page1NoSource ==
    /\ pc = "page1_fetched"
    /\ ~HasSource(source)
    /\ ReturnFromWalk
    /\ FreshFetch
    /\ UNCHANGED <<supVars, storeVars, err, disc, categories, walked, nav, pageNo, pagesReq,
                   offerIdx>>
    /\ Follow(FALSE)
    /\ UNCHANGED unpaced
    /\ UNCHANGED url

\* lines 309-311: page 1 is parsed; its navigation block is what the site sent
Page1Parsed ==
    /\ pc = "page1_fetched"
    /\ HasSource(source)
    /\ nav' \in NavVals
    /\ itemIdx' = 0
    /\ pc' = "items"
    /\ FreshFetch
    /\ UNCHANGED <<supVars, storeVars, err, travVars, walkState, pageNo, pagesReq, offerIdx>>
    /\ Follow(nav' = ScenarioNav(catIdx))
    /\ UNCHANGED unpaced
    /\ UNCHANGED url

\* lines 288-289: the next item block has no <a class="name">, .get raises
ItemWithoutLink ==
    /\ pc = "items"
    /\ itemIdx < MaxItems
    /\ itemIdx' = itemIdx + 1
    /\ RaiseInWalk("AttributeError")
    /\ UNCHANGED <<supVars, storeVars, travVars, nav, pageNo, pagesReq, offerIdx, fetchVars>>
    /\ Follow(FALSE)
    /\ UNCHANGED unpaced
    /\ UNCHANGED url

\* lines 288-293 and 342: the next item block has a link, get_item_data asks for it
ItemFetch ==
    /\ pc = "items"
    /\ itemIdx < MaxItems
    /\ itemIdx' = itemIdx + 1
    /\ offerIdx' = 0
    /\ CallFetch("item")
    /\ UNCHANGED <<supVars, storeVars, err, travVars, walkState, nav, pageNo, pagesReq>>
    /\ Follow(itemIdx = 0)
    /\ unpaced' = unpaced + 1
    /\ UNCHANGED url

\* lines 313-316: page 1 has no more items and no navigation block
LastPageAbsent ==
    /\ pc = "items"
    /\ pageNo = 1
    /\ nav.kind = "absent"
    /\ ReturnFromWalk
    /\ FreshFetch
    /\ UNCHANGED <<supVars, storeVars, err, disc, categories, walked, nav, pageNo, pagesReq,
                   offerIdx>>
    /\ Follow(itemIdx = 1)
    /\ UNCHANGED unpaced
    /\ UNCHANGED url

\* line 314: the navigation block holds no <a>, [-1] raises IndexError
LastPageNoAnchor ==
    /\ pc = "items"
    /\ pageNo = 1
    /\ nav.kind = "noanchor"
    /\ RaiseInWalk("IndexError")
    /\ UNCHANGED <<supVars, storeVars, travVars, nav, pageNo, pagesReq, itemIdx, offerIdx,
                   fetchVars>>
    /\ Follow(FALSE)
    /\ UNCHANGED unpaced
    /\ UNCHANGED url

\* lines 317-320: the last link's PAGEN_1 value is no integer (or it has no href)
LastPageUnparseable ==
    /\ pc = "items"
    /\ pageNo = 1
    /\ nav.kind = "unparseable"
    /\ ReturnFromWalk
    /\ FreshFetch
    /\ UNCHANGED <<supVars, storeVars, err, disc, categories, walked, nav, pageNo, pagesReq,
                   offerIdx>>
    /\ Follow(FALSE)
    /\ UNCHANGED unpaced
    /\ UNCHANGED url

\* lines 318, 322: last_page_number is an integer, the page loop starts
LastPageInt ==
    /\ pc = "items"
    /\ pageNo = 1
    /\ nav.kind = "int"
    /\ pc' = "pages"
    /\ UNCHANGED <<supVars, storeVars, err, travVars, walkVars, fetchVars>>
    /\ Follow(itemIdx = 1)
    /\ UNCHANGED unpaced
    /\ UNCHANGED url

\* line 333 back to 322: the items of a later page are done
LaterPageDone ==
    /\ pc = "items"
    /\ pageNo >= 2
    /\ pc' = "pages"
    /\ UNCHANGED <<supVars, storeVars, err, travVars, walkVars, fetchVars>>
    /\ Follow(itemIdx = 1)
    /\ UNCHANGED unpaced
    /\ UNCHANGED url

\* lines 322-327: the next page number is requested with PAGEN_1
NextPage ==
    /\ pc = "pages"
    /\ pageNo < nav.n
    /\ pageNo' = pageNo + 1
    /\ pagesReq' = Append(pagesReq, PageRequest(pageNo + 1))
    /\ itemIdx' = 0
    /\ CallFetch("page")
    /\ UNCHANGED <<supVars, storeVars, err, travVars, walkState, nav, offerIdx>>
    /\ Follow(TRUE)
    /\ UNCHANGED unpaced
    /\ UNCHANGED url

\* line 322: range(2, last_page_number + 1) is used up
PagesDone ==
    /\ pc = "pages"
    /\ pageNo >= nav.n
    /\ ReturnFromWalk
    /\ FreshFetch
    /\ UNCHANGED <<supVars, storeVars, err, disc, categories, walked, nav, pageNo, pagesReq,
                   offerIdx>>
    /\ Follow(TRUE)
    /\ UNCHANGED unpaced
    /\ UNCHANGED url

\* lines 328-330: no source for a later page, continue
PageNoSource ==
    /\ pc = "page_fetched"
    /\ ~HasSource(source)
    /\ pc' = "pages"
    /\ FreshFetch
    /\ UNCHANGED <<supVars, storeVars, err, travVars, walkVars>>
    /\ Follow(FALSE)
    /\ UNCHANGED unpaced
    /\ UNCHANGED url

\* lines 331-333: a later page is parsed
PageParsed ==
    /\ pc = "page_fetched"
    /\ HasSource(source)
    /\ itemIdx' = 0
    /\ pc' = "items"
    /\ FreshFetch
    /\ UNCHANGED <<supVars, storeVars, err, travVars, walkState, nav, pageNo, pagesReq,
                   offerIdx>>
    /\ Follow(TRUE)
    /\ UNCHANGED unpaced
    /\ UNCHANGED url

\* ------------------------------------------------------------ get_item_data
\* lines 343-345, then 295: no source for the item
ItemNoSource ==
    /\ pc = "item_fetched"
    /\ ~HasSource(source)
    /\ pc' = "items"
    /\ FreshFetch
    /\ UNCHANGED <<supVars, storeVars, err, travVars, walkVars>>
    /\ Follow(FALSE)
    /\ MakeDelay
    /\ UNCHANGED url

\* lines 363-366, then 295: the item page has no catalog-element block
ItemNoMainDiv ==
    /\ pc = "item_fetched"
    /\ HasSource(source)
    /\ pc' = "items"
    /\ FreshFetch
    /\ UNCHANGED <<supVars, storeVars, err, travVars, walkVars>>
    /\ Follow(FALSE)
    /\ MakeDelay
    /\ UNCHANGED url

\* lines 346-397: the item page is parsed, the offer loop starts
ItemParsed ==
    /\ pc = "item_fetched"
    /\ HasSource(source)
    /\ offerIdx' = 0
    /\ pc' = "offers"
    /\ FreshFetch
    /\ UNCHANGED <<supVars, storeVars, err, travVars, walkState, nav, pageNo, pagesReq,
                   itemIdx>>
    /\ Follow(TRUE)
    /\ UNCHANGED unpaced
    /\ UNCHANGED url

\* lines 401-403: a row without cells
OfferEmptyRow ==
    /\ pc = "offers"
    /\ offerIdx < MaxOffers
    /\ offerIdx' = offerIdx + 1
    /\ lastOffer' = NoOffer
    /\ UNCHANGED <<supVars, results, pc, err, travVars, walkState, nav, pageNo, pagesReq,
                   itemIdx, fetchVars>>
    /\ Follow(FALSE)
    /\ UNCHANGED unpaced
    /\ UNCHANGED url

\* line 458: a row with fewer than six cells, columns[5] raises IndexError
OfferShortRow ==
    /\ pc = "offers"
    /\ offerIdx < MaxOffers
    /\ offerIdx' = offerIdx + 1
    /\ lastOffer' = NoOffer
    /\ RaiseInWalk("IndexError")
    /\ UNCHANGED <<supVars, results, travVars, nav, pageNo, pagesReq, itemIdx, fetchVars>>
    /\ Follow(FALSE)
    /\ UNCHANGED unpaced
    /\ UNCHANGED url

\* lines 481-482 on self.results
Offer(res) ==
    /\ results' = OfferResult(results, res)
    /\ lastOffer' = [rec |-> res, ret |-> NeedToAppendResults(results, res), made |-> TRUE]

\* lines 404-482: a full row becomes a record and is offered
OfferRecord ==
    /\ pc = "offers"
    /\ offerIdx < MaxOffers
    /\ \E res \in SiteRecords :
         /\ Len(OfferResult(results, res)) <= MaxResults
         /\ Offer(res)
    /\ offerIdx' = offerIdx + 1
    /\ UNCHANGED <<supVars, pc, err, travVars, walkState, nav, pageNo, pagesReq, itemIdx,
                   fetchVars>>
    /\ Follow(offerIdx = 0 /\ lastOffer'.rec = ScenarioRecord(catIdx, pageNo))
    /\ UNCHANGED unpaced
    /\ UNCHANGED url

\* line 398 ends, get_item_data returns, then 295
OffersDone ==
    /\ pc = "offers"
    /\ offerIdx' = 0
    /\ lastOffer' = NoOffer
    /\ pc' = "items"
    /\ UNCHANGED <<supVars, results, err, travVars, walkState, nav, pageNo, pagesReq, itemIdx,
                   fetchVars>>
    /\ Follow(offerIdx = 1)
    /\ MakeDelay
    /\ UNCHANGED url

\* ------------------------------------------------------------------- crawl
Next ==
    \/ StartParser
    \/ Exhausted
    \/ Cooldown
    \/ Resume
    \/ ExplicitMode
    \/ DiscoverOk
    \/ DiscoverNoSource
    \/ DiscoverError
    \/ SkipCategory
    \/ StartWalk
    \/ FinishTraversal
    \/ WriteCsvFails
    \/ FetchAccepted
    \/ FetchRejected
    \/ FetchException
    \/ FetchExhausted
    \/ Page1NoSource
    \/ Page1Parsed
    \/ ItemWithoutLink
    \/ ItemFetch
    \/ LastPageAbsent
    \/ LastPageNoAnchor
    \/ LastPageUnparseable
    \/ LastPageInt
    \/ LaterPageDone
    \/ NextPage
    \/ PagesDone
    \/ PageNoSource
    \/ PageParsed
    \/ ItemNoSource
    \/ ItemNoMainDiv
    \/ ItemParsed
    \/ OfferEmptyRow
    \/ OfferShortRow
    \/ OfferRecord
    \/ OffersDone

Spec == Init /\ [][Next]_vars

\* ------------------------------------------------- the store on its own
\* self.results is written by lines 481-482 only: every store the program can
\* hold is built from the empty list by offers
InitStore ==
    /\ config = [max_retries |-> 1, restart_count |-> 1, categories |-> <<>>]
    /\ results = <<>>
    /\ lastOffer = NoOffer
    /\ sink = <<>>
    /\ try_count = 1
    /\ runLog = <<"attempt">>
    /\ outcome = "running"
    /\ pc = "offers"
    /\ err = NoneVal
    /\ disc = "none"
    /\ categories = <<>>
    /\ catIdx = 0
    /\ walked = <<>>
    /\ walkState = "running"
    /\ nav = NavUnread
    /\ pageNo = 1
    /\ pagesReq = <<>>
    /\ itemIdx = 0
    /\ offerIdx = 0
    /\ fetchFor = "none"
    /\ retries = 0
    /\ requests = 0
    /\ fails = 0
    /\ source = NoneVal
    /\ response = NoResponse
    /\ onScript = FALSE
    /\ unpaced = 0
    /\ url = NoUrl

\* lines 481-482 for any dict, whatever page it came from
StoreOffer ==
    /\ pc = "offers"
    /\ \E res \in Records :
         /\ Len(OfferResult(results, res)) <= MaxStore
         /\ Offer(res)
    /\ UNCHANGED <<supVars, pc, err, travVars, walkVars, fetchVars>>
    /\ Follow(FALSE)
    /\ UNCHANGED unpaced
    /\ UNCHANGED url

NextStore == StoreOffer

SpecStore == InitStore /\ [][NextStore]_vars

\* ------------------------------------------------------------ properties
NonEmpty(v) == v # NoneVal /\ v # ""
HasIdentity(r) == NonEmpty(r.sku_article) /\ NonEmpty(r.sku_barcode)

\* C1: At-most-one-copy invariant: in every reachable state of a run, restarts
\* included, any two distinct positions of the ResultSet whose records both
\* have a non-empty article and a non-empty barcode hold different
\* (article, barcode) pairs.
C1_AtMostOneCopy ==
    \A i, j \in 1..Len(results) :
        (i # j /\ HasIdentity(results[i]) /\ HasIdentity(results[j]))
            => <<results[i].sku_article, results[i].sku_barcode>>
                 # <<results[j].sku_article, results[j].sku_barcode>>

\* a second attempt re-offered a record the store already held, next to
\* another identified record, and it was rejected
C1_Witness ==
    /\ try_count = 2
    /\ Len(results) = 2
    /\ HasIdentity(results[1]) /\ HasIdentity(results[2])
    /\ lastOffer.made /\ ~lastOffer.ret
    /\ lastOffer.rec = results[1]

\* some accepted record has the article and the barcode of r, both non-empty in r
HasDuplicate(rs, r) ==
    /\ HasIdentity(r)
    /\ \E i \in 1..Len(rs) :
         rs[i].sku_article = r.sku_article /\ rs[i].sku_barcode = r.sku_barcode

\* C2: offer(record) rejects (returns false, appends nothing) exactly when an
\* accepted record has the same article and barcode and both are non-empty in
\* the offered record; otherwise the record is appended at the end and offer
\* returns true.
C2_OfferRejectsIffDuplicate ==
    [][ lastOffer'.made =>
          IF HasDuplicate(results, lastOffer'.rec)
          THEN results' = results /\ lastOffer'.ret = FALSE
          ELSE results' = Append(results, lastOffer'.rec) /\ lastOffer'.ret = TRUE
      ]_vars

\* both outcomes happened: a record that shares only its article with an
\* accepted one was appended after it, and then offered again and rejected
C2_Witness ==
    /\ Len(results) = 2
    /\ results[1] = Rec("A1", "B1")
    /\ results[2] = Rec("A1", "B2")
    /\ lastOffer = [rec |-> Rec("A1", "B2"), ret |-> FALSE, made |-> TRUE]

\* C3: Identity-blind uniqueness: a record whose article is empty/absent or
\* whose barcode is empty/absent is always accepted, whatever the store
\* holds, so that two equal records missing an identity field are both kept.
C3_IdentityBlind ==
    [][ (lastOffer'.made /\ ~HasIdentity(lastOffer'.rec)) =>
          (results' = Append(results, lastOffer'.rec) /\ lastOffer'.ret = TRUE)
      ]_vars

\* the store holds the same record without a barcode twice, the second just accepted
C3_Witness ==
    /\ Len(results) = 2
    /\ results[1] = results[2]
    /\ results[1].sku_article = "A1"
    /\ results[1].sku_barcode = NoneVal
    /\ lastOffer.made /\ lastOffer.ret
    /\ lastOffer.rec = results[2]

\* C4: Dedup idempotence: offering a record with non-empty article and barcode
\* a second time right after the first leaves the store as the first offer
\* left it; the second offer is rejected, and from an empty store the size
\* stays 1.
C4_DedupIdempotence ==
    [][ (lastOffer.made /\ lastOffer'.made /\ lastOffer'.rec = lastOffer.rec
           /\ HasIdentity(lastOffer.rec)) =>
          /\ results' = results
          /\ lastOffer'.ret = FALSE
          /\ (results = <<lastOffer.rec>> => Len(results') = 1)
      ]_vars

\* a record was accepted into the empty store, offered again and rejected
C4_Witness ==
    /\ lastOffer.made /\ ~lastOffer.ret
    /\ HasIdentity(lastOffer.rec)
    /\ results = <<lastOffer.rec>>

FetchReturned == pc \in {"page1_fetched", "page_fetched", "item_fetched"}

\* C5: Retry exhaustion: with max_retries = n >= 1, a fetch whose every
\* attempt fails (exception or non-200 status) issues exactly n requests and
\* returns None to its caller, without an exception.
C5_RetryExhaustion ==
    /\ (pc = "fetch" \/ FetchReturned) => requests <= config.max_retries
    /\ (FetchReturned /\ fails = requests) =>
          /\ requests = config.max_retries
          /\ source = NoneVal
          /\ err = NoneVal

\* a fetch of a later listing page used up two retries and returned None
C5_Witness ==
    /\ pc = "page_fetched"
    /\ config.max_retries = 2
    /\ fails = 2 /\ requests = 2
    /\ source = NoneVal

ListingPages(n) == [k \in 1..n |-> PageRequest(k)]

\* C6: Pagination bound: when page 1 of a category is fetched and its
\* last-page indicator is the integer N, get_items requests exactly the pages
\* 1..N in increasing order, page 1 without PAGEN_1 and page k with
\* PAGEN_1 = k.
C6_PaginationBound ==
    (walkState \in {"returned", "aborted"} /\ nav.kind = "int")
        => pagesReq = ListingPages(nav.n)

\* the categories of the list that have a parent, in list order
RECURSIVE SubCategoryIndices(_, _)
SubCategoryIndices(cs, i) ==
    IF i > Len(cs) THEN <<>>
    ELSE IF cs[i].parent_id # NoneVal
         THEN <<i>> \o SubCategoryIndices(cs, i + 1)
         ELSE SubCategoryIndices(cs, i + 1)

AttemptOver == pc = "raised" \/ outcome = "succeeded"

\* C7: Run retry bound: with restart_count = n >= 1 and every attempt failing,
\* start_parser runs exactly n attempts with n-1 sleeps, each between two
\* attempts, and stops without raising; try_count never exceeds restart_count.
C7_RunRetryBound ==
    /\ try_count <= config.restart_count
    /\ \A i \in 1..Len(runLog) : runLog[i] = IF i % 2 = 1 THEN "attempt" ELSE "sleep"
    /\ pc = "sleeping" <=> (Len(runLog) > 0 /\ runLog[Len(runLog)] = "sleep")
    /\ (Len(runLog) + 1) \div 2 = try_count
    /\ outcome = "exhausted" =>
          /\ pc = "done"
          /\ try_count = config.restart_count
          /\ Len(runLog) = 2 * config.restart_count - 1

\* two attempts failed with one sleep between them and the run stopped
C7_Witness ==
    /\ config.restart_count = 2
    /\ outcome = "exhausted"
    /\ pc = "done"
    /\ runLog = <<"attempt", "sleep", "attempt">>

\* C8: Root-category exclusion: in discovery mode one traversal attempt calls
\* get_items for no root category and exactly once, in discovery order, for
\* every sub-category parse_cats returned.
C8_RootCategoryExclusion ==
    (AttemptOver /\ disc = "ok") => walked = SubCategoryIndices(categories, 1)

C10_DiscoveryFailure ==
    /\ [](disc = "nosource" =>
            /\ walked = <<>>
            /\ \/ pc = "raised" /\ outcome = "running" /\ err = "TypeError"
               \/ pc = "done" /\ outcome = "exhausted"
                    /\ try_count = config.restart_count)
    /\ [][ (disc = "nosource" /\ pc = "raised") =>
             IF try_count < config.restart_count
             THEN pc' = "sleeping" /\ runLog' = Append(runLog, "sleep")
             ELSE pc' = "done" /\ outcome' = "exhausted" /\ runLog' = runLog
         ]_vars

\* the start page was empty in the first attempt and a second attempt began
\* after the sleep
C10_Witness ==
    /\ config.categories = <<>>
    /\ config.restart_count = 2
    /\ try_count = 2
    /\ pc = "raised"
    /\ disc = "nosource"
    /\ runLog = <<"attempt", "sleep", "attempt">>

\* ------------------------------------------------------------ run outcomes
\* the invocations of write_csv that returned
OkCalls(s) == {i \in 1..Len(s) : s[i].ok}

\* C11: Succeeded: the first attempt that completes without raising hands the
\* ResultSet to the Sink exactly once and the supervisor then stops: a run
\* that succeeded is over, its only returned write_csv call is the last one
\* and carried self.results, no sleep followed the successful attempt, and
\* the step in which write_csv returns is the step that ends the run.
C11_Succeeded ==
    /\ [](outcome = "succeeded" =>
            /\ pc = "done"
            /\ OkCalls(sink) = {Len(sink)}
            /\ sink[Len(sink)].data = results
            /\ Len(sink) = 1
            /\ Len(runLog) = 2 * try_count - 1)
    /\ [][OkCalls(sink') # OkCalls(sink) =>
            /\ sink' = Append(sink, SinkCall(results, TRUE))
            /\ OkCalls(sink) = {}
            /\ outcome' = "succeeded"
            /\ UNCHANGED <<try_count, runLog, results>>]_vars
    /\ [][outcome # "succeeded"]_vars

\* the first attempt failed, the second one completed and wrote two records
C11_Witness ==
    /\ outcome = "succeeded"
    /\ try_count = 2
    /\ Len(results) = 2
    /\ sink[Len(sink)] = SinkCall(results, TRUE)

\* C12: Exhausted: when every allowed attempt raised, the run ends without
\* raising and the Sink was invoked only by attempts that reached the
\* persistence step: write_csv is called only once the category loop of
\* _start_parser is over, with self.results, at most once per attempt; an
\* exhausted run made restart_count attempts, none of its write_csv calls
\* returned, and nothing happens after it.
C12_Exhausted ==
    /\ [](outcome = "exhausted" =>
            /\ pc = "done"
            /\ try_count = config.restart_count
            /\ OkCalls(sink) = {}
            /\ Len(sink) <= 1)
    /\ [][Len(sink') > Len(sink) =>
            /\ pc = "cats"
            /\ catIdx > Len(categories)
            /\ \E ok \in BOOLEAN : sink' = Append(sink, SinkCall(results, ok))
            /\ results' = results
            /\ pc' \in {"raised", "done"}]_vars
    /\ [][outcome # "exhausted"]_vars

\* the first attempt failed and the second, the last one allowed, walked its
\* categories, handed a record to write_csv and failed there
C12_Witness ==
    /\ outcome = "exhausted"
    /\ config.restart_count = 2
    /\ sink = <<SinkCall(results, FALSE)>>
    /\ Len(results) >= 1
    /\ err = "OSError"

\* --------------------------------------------------- end-to-end scenario
ScenarioResult == <<Rec("A1", "B1"), Rec("A2", "B2")>>

\* C13: End-to-end scenario: with categories [12, 34] and max_retries 1,
\* category 12 showing one page without navigation that yields (A1, B1) and
\* category 34 showing two pages that yield (A1, B1) again and (A2, B2), the
\* store holds (A1, B1) alone once category 12 is done, never anything but a
\* prefix of [(A1, B1), (A2, B2)], and write_csv is called once, with exactly
\* [(A1, B1), (A2, B2)].
C13_EndToEndScenario ==
    onScript =>
        /\ \E n \in 0..2 : results = SubSeq(ScenarioResult, 1, n)
        /\ (pc = "cats" /\ catIdx = 2) => results = <<Rec("A1", "B1")>>
        /\ (pc = "cats" /\ catIdx = 3) => results = ScenarioResult
        /\ pc = "done" =>
              /\ outcome = "succeeded"
              /\ sink = <<SinkCall(ScenarioResult, TRUE)>>
              /\ Len(sink[1].data) = 2

\* the scenario ran to its end: both categories walked, three listing pages
\* and three items fetched, the file written
C13_Witness ==
    /\ onScript
    /\ pc = "done"
    /\ walked = <<1, 2>>
    /\ pagesReq = <<PageRequest(1), PageRequest(2)>>
    /\ Len(sink) = 1

\* ----------------------------------------------------------- traversal order
\* the step offers a record to the store
OfferMade == lastOffer'.made /\ offerIdx' = offerIdx + 1

\* C14: Traversal order is preserved and the ResultSet is append-only: within
\* one attempt get_items is called for categories of increasing position in
\* the list, each call requests pages 1, 2, .. in increasing number, the item
\* blocks of a page are taken one after the other, every offer is made for
\* the current item of the current page of the current category, row after
\* row; and a step leaves self.results as it is or, when the offered record
\* is accepted, appends that record at its end.
C14_TraversalOrder ==
    /\ [][(try_count' = try_count /\ pc # "raised") =>
            /\ \/ walked' = walked
               \/ /\ walked' = Append(walked, catIdx)
                  /\ catIdx' = catIdx
                  /\ \A i \in 1..Len(walked) : walked[i] < catIdx
                  /\ pagesReq' = <<PageRequest(1)>>
                  /\ itemIdx' = 0
            /\ walked' = walked =>
                  \/ pagesReq' = pagesReq
                  \/ /\ pagesReq' = Append(pagesReq, PageRequest(Len(pagesReq) + 1))
                     /\ pageNo' = Len(pagesReq) + 1
                     /\ itemIdx' = 0
            /\ (walked' = walked /\ pagesReq' = pagesReq /\ walkState' = "running") =>
                  itemIdx' \in {itemIdx, itemIdx + 1}
            /\ OfferMade =>
                  /\ pc = "offers"
                  /\ walkState = "running"
                  /\ catIdx = walked[Len(walked)]
                  /\ pageNo = Len(pagesReq)
                  /\ offerIdx' = offerIdx + 1
                  /\ UNCHANGED <<catIdx, walked, pageNo, pagesReq, itemIdx>>]_vars
    /\ [][IF OfferMade /\ lastOffer'.ret
          THEN results' = Append(results, lastOffer'.rec)
          ELSE results' = results]_vars

\* the second record was accepted on page 2 of the second category walked,
\* behind the record an earlier walk had left
C14_Witness ==
    /\ Len(walked) = 2
    /\ Len(pagesReq) = 2
    /\ Len(results) = 2
    /\ lastOffer.made /\ lastOffer.ret
    /\ lastOffer.rec = results[2]
    /\ lastOffer.rec # results[1]

\* ------------------------------------------------------------------ pacing
\* get_item_data is running for an item block
ItemInProgress == pc \in {"item_fetched", "offers"} \/ (pc = "fetch" /\ fetchFor = "item")

\* C15: Pacing granularity: pace() is invoked exactly once per item fetched,
\* after that item's fetch, so the number of _make_delay calls equals the
\* number of items fetched: whenever no item is being processed, every
\* get_item_data call of the attempt has been followed by its _make_delay.
C15_PacingGranularity == unpaced = IF ItemInProgress THEN 1 ELSE 0

\* ------------------------------------------------------------ failed fetches
\* the _get_source call that just returned used up its retries
FetchFailed == source = NoneVal /\ fails = config.max_retries /\ requests = fails

\* C16: A fetch Failure degrades to a skip of exactly one unit: when the
\* fetch of a listing page k >= 2 exhausts its retries, no item of that page
\* is taken, nothing is offered, and get_items is back at its page loop in
\* the same category; when the fetch of an item page exhausts its retries,
\* nothing is offered and _extract_items is back at its item loop on the same
\* page; in both cases no exception is raised and the attempt goes on.
C16_FailureIsSkip ==
    /\ [][(pc = "page_fetched" /\ FetchFailed) =>
            /\ pageNo >= 2
            /\ pc' = "pages"
            /\ itemIdx' = 0
            /\ walkState' = "running"
            /\ UNCHANGED <<results, lastOffer, err, try_count, outcome, travVars, nav,
                           pageNo, pagesReq, unpaced>>]_vars
    /\ [][(pc = "item_fetched" /\ FetchFailed) =>
            /\ pc' = "items"
            /\ walkState' = "running"
            /\ unpaced' = unpaced - 1
            /\ UNCHANGED <<results, lastOffer, err, try_count, outcome, travVars, nav,
                           pageNo, pagesReq, itemIdx, offerIdx>>]_vars

\* page 2 of a category could not be fetched in two requests while the store
\* holds a record of page 1
C16_Witness ==
    /\ pc = "page_fetched"
    /\ FetchFailed
    /\ config.max_retries = 2
    /\ pageNo = 2
    /\ Len(results) = 1

\* ---------------------------------------------------------- fetch acceptance
\* C17: Fetch acceptance: _get_source returns the response text only for a
\* response that is ok with status code exactly 200, and returns at the first
\* such response; a response with any other status and a transport error
\* each use up one retry and keep the loop going; no request is made outside
\* the loop, and one call makes at most max_retries requests.
C17_FetchAcceptance ==
    /\ [](FetchReturned =>
            /\ requests <= config.max_retries
            /\ source # NoneVal <=> response = 200
            /\ source # NoneVal => (requests = fails + 1 /\ retries = config.max_retries - fails)
            /\ source = NoneVal => (requests = fails /\ retries = 0))
    /\ [](pc = "fetch" =>
            /\ requests = fails
            /\ retries = config.max_retries - fails
            /\ response # 200)
    /\ [][requests' = requests + 1 =>
            /\ pc = "fetch"
            /\ retries > 0
            /\ IF response' = 200
               THEN /\ pc' = Returned(fetchFor)
                    /\ source' \in {"html", ""}
                    /\ UNCHANGED <<retries, fails>>
               ELSE /\ response' \in {204, 404, TransportError}
                    /\ pc' = "fetch"
                    /\ retries' = retries - 1
                    /\ fails' = fails + 1
                    /\ source' = NoneVal]_vars
    /\ [][(FetchReturned /\ pc' # "fetch") => requests' <= requests]_vars

\* the second request of a page-1 fetch was answered with 200 after the
\* first had been answered with another status or not at all
C17_Witness ==
    /\ pc = "page1_fetched"
    /\ response = 200
    /\ source = "html"
    /\ fails = 1
    /\ requests = 2

\* ------------------------------------------------------- first-page failure
\* C18: First-page failure aborts only the category: when the fetch of page 1
\* fails, get_items returns at once: nothing was offered, page 1 is the only
\* page requested and no item was fetched, no exception is raised, and the
\* category loop is at the next category; within one attempt no category is
\* handed to get_items twice, so page 1 is not fetched again.
C18_FirstPageFailure ==
    /\ [][(pc = "page1_fetched" /\ FetchFailed) =>
            /\ pagesReq = <<PageRequest(1)>>
            /\ itemIdx = 0
            /\ nav = NavUnread
            /\ walked[Len(walked)] = catIdx
            /\ pc' = "cats"
            /\ catIdx' = catIdx + 1
            /\ walkState' = "returned"
            /\ UNCHANGED <<results, lastOffer, err, try_count, runLog, outcome, sink,
                           categories, walked, pagesReq, nav, unpaced>>]_vars
    /\ [](\A i, j \in 1..Len(walked) : i < j => walked[i] < walked[j])
    /\ [][(walked' # walked /\ try_count' = try_count /\ pc # "raised") =>
            /\ walked' = Append(walked, catIdx)
            /\ \A i \in 1..Len(walked) : walked[i] < catIdx]_vars

\* page 1 of a category could not be fetched in two requests and another
\* category follows it in the list
C18_Witness ==
    /\ pc = "page1_fetched"
    /\ FetchFailed
    /\ config.max_retries = 2
    /\ Len(walked) = 1
    /\ catIdx < Len(categories)

\* ------------------------------------------------------- end of pagination
\* the latest get_items call is over
WalkOver == walkState \in {"returned", "aborted"}

\* C19: Non-fatal end of pagination: when page 1 of a category has no
\* navigation control, or its last-page indicator is no integer, the walk of
\* that category ends by returning, having requested page 1 only, and no
\* error was raised.
C19_NonFatalEndOfPagination ==
    (WalkOver /\ nav.kind \in {"absent", "unparseable"}) =>
        /\ walkState = "returned"
        /\ pagesReq = <<PageRequest(1)>>
        /\ pc # "raised"

\* ------------------------------------------------------------ mode selection
\* _start_parser is past the choice of its category list
ListChosen == pc \notin {"idle", "attempt", "sleeping"}

\* C20: Mode selection: with a non-empty configured list parse_cats is never
\* called and get_items is called once per configured id, in configuration
\* order, on the templated URL; with an absent or empty list parse_cats is
\* called once per attempt and no templated URL is walked.
C20_ModeSelection ==
    /\ config.categories # <<>> =>
          /\ disc = "none"
          /\ url.kind \in {"none", "template"}
          /\ ListChosen => categories = config.categories
          /\ \A i \in 1..Len(walked) : walked[i] = i
          /\ (walkState # "none") => url = WalkUrl(config.categories[Len(walked)], FALSE)
          /\ AttemptOver => Len(walked) = Len(config.categories)
    /\ config.categories = <<>> =>
          /\ url.kind \in {"none", "link"}
          /\ ListChosen => disc # "none"

\* ------------------------------------------------------ across attempts
\* rs is the beginning of rs2
IsPrefix(rs, rs2) == Len(rs) <= Len(rs2) /\ rs = SubSeq(rs2, 1, Len(rs))

\* C21: The ResultSet survives a failed attempt unchanged: from the moment
\* an attempt has failed until the next one runs its first statement no step
\* clears or changes self.results; no step at all ever drops or moves a
\* record, so what an attempt holds when it fails is the beginning of what
\* every later attempt holds; and the attempt that succeeds hands the whole
\* list to write_csv, records of failed attempts included.
C21_ResultSetSurvivesFailure ==
    /\ [][(pc \in {"raised", "sleeping", "attempt"}) => results' = results]_vars
    /\ [][IsPrefix(results, results')]_vars
    /\ [](outcome = "succeeded" => sink[Len(sink)] = SinkCall(results, TRUE))
    /\ [](\A i \in 1..Len(sink) : IsPrefix(sink[i].data, results))

\* the second attempt is about to start while the store holds a record the
\* failed first attempt accepted
C21_Witness ==
    /\ pc = "attempt"
    /\ try_count = 2
    /\ Len(results) >= 1
    /\ sink = <<>>

\* position of the first category of the list that get_items is called for
FirstWalked ==
    IF InDiscovery THEN SubCategoryIndices(categories, 1)[1] ELSE 1

\* C22: No resume point: every attempt starts with nothing but self.results
\* and the attempt counter left of the earlier ones: no category list, no
\* position in it, no page, item or fetch state; its first step takes the
\* configured list anew or calls parse_cats again, the category loop starts
\* at the head of the list, and the first category the attempt walks is the
\* first one of the list that is walked at all.
C22_NoResumePoint ==
    /\ [](pc = "attempt" =>
            /\ disc = "none"
            /\ categories = <<>>
            /\ catIdx = 0
            /\ walked = <<>>
            /\ walkState = "none"
            /\ nav = NavUnread
            /\ pageNo = 0
            /\ pagesReq = <<>>
            /\ itemIdx = 0
            /\ offerIdx = 0
            /\ fetchFor = "none"
            /\ source = NoneVal
            /\ url = NoUrl
            /\ unpaced = 0)
    /\ [][(pc = "attempt") =>
            /\ config.categories # <<>> =>
                  (disc' = "none" /\ categories' = config.categories /\ catIdx' = 1)
            /\ config.categories = <<>> =>
                  (disc' # "none" /\ (pc' = "cats" => catIdx' = 1))
            /\ pc' \in {"cats", "raised"}
            /\ UNCHANGED <<results, try_count, walked>>]_vars
    /\ [](walked # <<>> => walked[1] = FirstWalked)

\* the second attempt asks again for page 1 of the first configured category
\* although the store already holds the records of both categories
C22_Witness ==
    /\ try_count = 2
    /\ config.categories # <<>>
    /\ pc = "page1_fetched"
    /\ walked = <<1>>
    /\ Len(results) = 2


====
